---- MODULE Spec2Model ----
(***************************************************************************)
(* Model of the Gemini Blender add-on (src/gemini_addon.py): the secret    *)
(* resolution shared by the operators, the connection probe, the prompt    *)
(* executor, the push-to-talk modal operator and the fence stripping of    *)
(* the remote reply.                                                       *)
(*                                                                         *)
(* Text is a sequence of one-character strings, so that str.replace and    *)
(* str.strip are computed character by character as Python computes them.  *)
(***************************************************************************)
EXTENDS Naturals, Sequences, FiniteSets, TLC

\* ------------------------------------------------------------------ bounds

\* Number of fragments a remote reply is composed of in SpecFence.
MaxFrags == 4

\* Number of VoiceRecord operator instances that ever open an audio stream.
MaxOps == 2

\* Number of entries the chat transcript may grow to.
MaxChat == 4

\* ------------------------------------------------------------------ text

\* Python's None, kept apart from every text (a text holds one-character strings).
None == <<"<None>">>

\* The characters str.strip() removes with no argument.
Whitespace == {" ", "\n", "\t"}

\* Python truthiness of an optional text: None and "" are falsy.
Truthy(v) == v # None /\ v # <<>>

RECURSIVE LStrip(_, _)
\* str.lstrip(chars): drop leading characters that are in chars.
LStrip(s, chars) ==
    IF s # <<>> /\ Head(s) \in chars THEN LStrip(Tail(s), chars) ELSE s

RECURSIVE RStrip(_, _)
\* str.rstrip(chars): drop trailing characters that are in chars.
RStrip(s, chars) ==
    IF s # <<>> /\ s[Len(s)] \in chars
    THEN RStrip(SubSeq(s, 1, Len(s) - 1), chars)
    ELSE s

\* str.strip(chars).
Strip(s, chars) == RStrip(LStrip(s, chars), chars)

\* s.startswith(p).
StartsWith(s, p) == Len(s) >= Len(p) /\ SubSeq(s, 1, Len(p)) = p

RECURSIVE Remove(_, _)
\* s.replace(old, ""): every non-overlapping occurrence, scanning left to right.
Remove(s, old) ==
    IF Len(s) < Len(old) THEN s
    ELSE IF StartsWith(s, old)
         THEN Remove(SubSeq(s, Len(old) + 1, Len(s)), old)
         ELSE <<Head(s)>> \o Remove(Tail(s), old)

RECURSIVE Count(_, _)
\* s.count(sub): the number of non-overlapping occurrences.
Count(s, sub) ==
    IF Len(s) < Len(sub) THEN 0
    ELSE IF StartsWith(s, sub)
         THEN 1 + Count(SubSeq(s, Len(sub) + 1, Len(s)), sub)
         ELSE Count(Tail(s), sub)

\* ------------------------------------------------------------------ fences

\* The grave accent character (U+0060), which a TLA+ string cannot hold.
BQ == "bq"

Fence == <<BQ, BQ, BQ>>
PythonFence == Fence \o <<"p", "y", "t", "h", "o", "n">>

\* Mutant: the text is trimmed before the markers are removed, not after.
StripBeforeRemove(text) == Remove(Remove(Strip(text, Whitespace), PythonFence), Fence)

\* response.text.replace(PythonFence, "").replace(Fence, "").strip()
StripFences(text) == Strip(Remove(Remove(text, PythonFence), Fence), Whitespace)

\* ------------------------------------------------------------------ .env

KeyName == <<"G", "E", "M", "I", "N", "I", "_", "A", "P", "I", "_", "K", "E", "Y">>

\* The lines .env files are made of, each as the file iterator yields it.
LineBlank == <<" ", "\n">>
LineComment == <<"#", " ">> \o KeyName \o <<"=", "a", "\n">>
LineNoEq == KeyName \o <<"\n">>
LineOther == <<"O", " ", "=", " ", "a", "\n">>
LineQuoted == <<" ">> \o KeyName \o <<" ", "=", " ", "\"", "c", "\"", "\n">>
LineSingle == KeyName \o <<"=", "'", "c", "'", "\n">>
LineEmpty == KeyName \o <<"=", "\n">>

\* os.path.exists(env_path) is false.
NoFile == << <<"<NoFile>">> >>

\* The .env files the user may have written.
EnvFiles ==
    { NoFile,
      <<LineBlank, LineComment, LineNoEq, LineOther>>,
      <<LineQuoted>>,
      <<LineOther, LineSingle>>,
      <<LineEmpty>> }

Range(s) == {s[i] : i \in 1..Len(s)}

\* line.split('=', 1): the index of the first '='.
FirstEq(line) == CHOOSE i \in 1..Len(line) :
                    line[i] = "=" /\ \A j \in 1..(i - 1) : line[j] # "="

\* dict.get(k): None when the key is missing.
DictGet(d, k) == IF k \in DOMAIN d THEN d[k] ELSE None

\* d[k] = v
DictSet(d, k, v) == [x \in DOMAIN d \cup {k} |-> IF x = k THEN v ELSE d[x]]

EmptyDict == [x \in {} |-> None]

RECURSIVE ManualLines(_, _)
\* The loop body of _manual_env_parse over the remaining lines.
ManualLines(lines, env_vars) ==
    IF lines = <<>> THEN env_vars
    ELSE LET line == Strip(Head(lines), Whitespace) IN
         IF line = <<>> \/ Head(line) = "#" \/ "=" \notin Range(line)
         THEN ManualLines(Tail(lines), env_vars)
         ELSE LET i == FirstEq(line)
                  key == Strip(SubSeq(line, 1, i - 1), Whitespace)
                  value == Strip(Strip(Strip(SubSeq(line, i + 1, Len(line)),
                                             Whitespace), {"\""}), {"'"})
              IN ManualLines(Tail(lines), DictSet(env_vars, key, value))

\* _manual_env_parse(env_path)
ManualEnvParse(file) == IF file = NoFile THEN EmptyDict ELSE ManualLines(file, EmptyDict)

\* python-dotenv's reading of one value: a quoted value is what stands between the
\* quotes, an unquoted one is taken as written.
DotenvValue(v) ==
    IF Len(v) >= 2 /\ Head(v) \in {"\"", "'"} /\ v[Len(v)] = Head(v)
    THEN SubSeq(v, 2, Len(v) - 1)
    ELSE v

RECURSIVE DotenvLines(_, _)
\* python-dotenv's dotenv_values: a name without '=' is bound to None.
DotenvLines(lines, vals) ==
    IF lines = <<>> THEN vals
    ELSE LET line == Strip(Head(lines), Whitespace) IN
         IF line = <<>> \/ Head(line) = "#"
         THEN DotenvLines(Tail(lines), vals)
         ELSE IF "=" \notin Range(line)
         THEN DotenvLines(Tail(lines), DictSet(vals, line, None))
         ELSE LET i == FirstEq(line)
                  key == Strip(SubSeq(line, 1, i - 1), Whitespace)
                  value == DotenvValue(Strip(SubSeq(line, i + 1, Len(line)), Whitespace))
              IN DotenvLines(Tail(lines), DictSet(vals, key, value))

\* What python-dotenv reads for GEMINI_API_KEY in each file (None: nothing to set).
DotenvKey ==
    [f \in EnvFiles |->
        IF f = NoFile THEN None ELSE DictGet(DotenvLines(f, EmptyDict), KeyName)]

\* env_vars.get("GEMINI_API_KEY") after _manual_env_parse, for each file.
ManualKey == [f \in EnvFiles |-> DictGet(ManualEnvParse(f), KeyName)]

\* Mutant: load_dotenv(env_path, override=True), the file beats the environment.
LoadDotenvOverride(env, file) == IF DotenvKey[file] # None THEN DotenvKey[file] ELSE env

\* load_dotenv(env_path): os.environ["GEMINI_API_KEY"] afterwards. A variable the
\* environment already holds (even empty) is left alone; a name bound to None is skipped.
LoadDotenv(env, file) == IF env # None THEN env ELSE DotenvKey[file]

\* The secret resolution every operator repeats: load_dotenv, os.getenv, the manual
\* parse when that gave nothing, then settings.api_key. reads names what was
\* consulted: the environment, the file through load_dotenv (which reads it when
\* it exists), the file through _manual_env_parse, the UI setting.
ResolveKey(env, file, ui) ==
    LET loaded == LoadDotenv(env, file)
        manual == ~Truthy(loaded)
        found == IF manual THEN ManualKey[file] ELSE loaded
    IN [environ |-> loaded,
        key |-> IF Truthy(found) THEN found ELSE ui,
        reads |-> {"environ"}
                    \cup (IF file # NoFile THEN {"dotenv"} ELSE {})
                    \cup (IF manual THEN {"manual"} ELSE {})
                    \cup (IF Truthy(found) THEN {} ELSE {"ui"}) ]

\* Mutant: only None counts as missing (if api_key is None), an empty key passes.
KeyMissingNoneOnly(key) == key = None

\* if not api_key
KeyMissing(key) == ~Truthy(key)

\* ------------------------------------------------------------------ state

VARIABLES
    environ,            \* os.environ.get("GEMINI_API_KEY"): None when unset
    envfile,            \* the .env file beside the add-on: NoFile or its lines
    deps,               \* whether the required packages can be imported
    api_key,            \* settings.api_key
    prompt_input,       \* settings.prompt_input
    connection_status,  \* settings.connection_status
    is_recording,       \* settings.is_recording
    chat_history,       \* settings.chat_history
    ops,                \* the VoiceRecord operator instances that opened a stream
    wavfile,            \* whether gemini_voice_command.wav exists
    last,               \* what the last operator callback returned and reported
    fence               \* the fence-stripping run of SpecFence

vars == <<environ, envfile, deps, api_key, prompt_input, connection_status,
          is_recording, chat_history, ops, wavfile, last, fence>>

\* The default of settings.prompt_input.
DefaultPrompt ==
    <<"C", "r", "e", "a", "t", "e", " ", "a", " ", "p", "r", "o", "c", "e", "d", "u",
      "r", "a", "l", " ", "c", "r", "y", "s", "t", "a", "l", " ", "f", "o", "r", "m",
      "a", "t", "i", "o", "n">>

\* "Executed command: "
ExecutedPrefix ==
    <<"E", "x", "e", "c", "u", "t", "e", "d", " ", "c", "o", "m", "m", "a", "n", "d",
      ":", " ">>

\* "[Voice Command]"
VoiceUserLine ==
    <<"[", "V", "o", "i", "c", "e", " ", "C", "o", "m", "m", "a", "n", "d", "]">>

\* "Executed voice command."
VoiceAiLine ==
    <<"E", "x", "e", "c", "u", "t", "e", "d", " ", "v", "o", "i", "c", "e", " ", "c",
      "o", "m", "m", "a", "n", "d", ".">>

\* A reply holding one fenced block around the code x.
FencedReply == PythonFence \o <<"\n", "x", "\n">> \o Fence

\* A reply holding nothing but the two markers.
FenceOnlyReply == PythonFence \o <<"\n">> \o Fence

\* response.text of the remote call: None when the reply carries no text.
Replies == {None, FencedReply, FenceOnlyReply}

\* The values GEMINI_API_KEY may have in the environment the host starts with.
StartEnviron == {None, <<>>, <<"a">>}

\* What the user may type into the API Key field.
UiKeys == {<<>>, <<"b">>}

\* What the user may type into the prompt field.
Prompts == {<<>>, DefaultPrompt}

\* raw_code for each reply that carries text.
RawCode == [reply \in Replies \ {None} |-> StripFences(reply)]

\* An operator instance that holds nothing: it has not run, or it ended with its
\* timer removed and its stream closed. recorded says whether _recording is non-empty.
FreshOp == [state |-> "unused", recorded |-> FALSE, stream |-> "none", timer |-> FALSE]

\* An instance that is a modal handler: stream started, timer registered.
RunningOp == [state |-> "modal", recorded |-> FALSE, stream |-> "active", timer |-> TRUE]

\* An instance that ended and left its stream as it was (open, or still active).
DeadOp(stream) == [state |-> "dead", recorded |-> FALSE, stream |-> stream, timer |-> FALSE]

\* What one operator callback returned, reported and did.
Call(op, result, report, client, net, reads) ==
    [op |-> op, result |-> result, report |-> report, client |-> client,
     net |-> net, reads |-> reads]

\* No operator callback has run since the user last touched the settings or the
\* file, or since the last block of audio arrived.
NoCall == Call("none", "none", "none", None, 0, {})

\* setup_environment(): load_dotenv runs only when dotenv can be imported.
SetupEnvironment(env, file, d) == IF d THEN LoadDotenv(env, file) ELSE env

\* ------------------------------------------------------------------ the user

\* The user edits the API Key field of the panel.
EditApiKey ==
    /\ \E k \in UiKeys : k # api_key /\ api_key' = k
    /\ last' = NoCall
    /\ UNCHANGED <<environ, envfile, deps, prompt_input, connection_status,
                   is_recording, chat_history, ops, wavfile, fence>>

\* The user edits the prompt field of the panel.
EditPrompt ==
    /\ \E p \in Prompts : p # prompt_input /\ prompt_input' = p
    /\ last' = NoCall
    /\ UNCHANGED <<environ, envfile, deps, api_key, connection_status,
                   is_recording, chat_history, ops, wavfile, fence>>

\* The user rewrites, creates or deletes the .env file.
WriteEnvFile ==
    /\ \E f \in EnvFiles : f # envfile /\ envfile' = f
    /\ last' = NoCall
    /\ UNCHANGED <<environ, deps, api_key, prompt_input, connection_status,
                   is_recording, chat_history, ops, wavfile, fence>>

\* ------------------------------------------------------------------ InstallDeps

\* GEMINI_MCP_OT_InstallDeps.execute: pip either fails or installs every package.
InstallDeps(pip) ==
    /\ IF pip = "fails"
       THEN /\ last' = Call("InstallDeps", "CANCELLED", "Installation failed", None, 0, {})
            /\ UNCHANGED <<deps, environ>>
       ELSE /\ deps' = TRUE
            /\ environ' = SetupEnvironment(environ, envfile, TRUE)
            /\ last' = Call("InstallDeps", "FINISHED",
                            "Dependencies installed successfully!", None, 0, {})
    /\ UNCHANGED <<envfile, api_key, prompt_input, connection_status,
                   is_recording, chat_history, ops, wavfile, fence>>

\* ------------------------------------------------------------------ TestConnection

\* GEMINI_MCP_OT_TestConnection.execute; remote is what generate_content does.
TestConnection(remote) ==
    /\ IF ~deps
       THEN /\ last' = Call("TestConnection", "FINISHED",
                            "Dependencies missing. Please install them first.",
                            None, 0, {})
            /\ UNCHANGED <<environ, connection_status>>
       ELSE LET r == ResolveKey(SetupEnvironment(environ, envfile, deps), envfile, api_key)
            IN /\ environ' = r.environ
               /\ IF KeyMissing(r.key)
                  THEN /\ last' = Call("TestConnection", "CANCELLED", "Missing API Key",
                                       None, 0, r.reads)
                       /\ UNCHANGED connection_status
                  ELSE IF remote = "ok"
                  THEN /\ connection_status' = "SUCCESS"
                       /\ last' = Call("TestConnection", "FINISHED",
                                       "Gemini: Connection Successful!", r.key, 1, r.reads)
                  ELSE /\ connection_status' = "FAILED"
                       /\ last' = Call("TestConnection", "FINISHED", "Connection Failed",
                                       r.key, 1, r.reads)
    /\ UNCHANGED <<envfile, deps, api_key, prompt_input, is_recording, chat_history,
                   ops, wavfile, fence>>

\* ------------------------------------------------------------------ Execute

\* One transcript line.
ChatLine(role, content) == [role |-> role, content |-> content]

\* Mutant: the user line is added before the code is evaluated.
LogThenExec(chat, user, ai, ran) ==
    IF ran = "ok"
    THEN chat \o <<ChatLine("user", user), ChatLine("ai", ai)>>
    ELSE chat \o <<ChatLine("user", user)>>

\* exec(raw_code, globals()) followed by the two chat_history.add() calls: an
\* exception raised by the evaluated code skips both.
ExecThenLog(chat, user, ai, ran) ==
    IF ran = "ok"
    THEN chat \o <<ChatLine("user", user), ChatLine("ai", ai)>>
    ELSE chat

\* What evaluating raw_code does: an empty script cannot raise.
Evaluate(raw_code, ran) == IF raw_code = <<>> THEN "ok" ELSE ran

\* GEMINI_MCP_OT_Execute.execute; remote and reply are what generate_content does,
\* ran is what evaluating the generated code does.
Execute(remote, reply, ran) ==
    /\ IF ~deps
       THEN /\ last' = Call("Execute", "FINISHED", "Error", None, 0, {})
            /\ UNCHANGED <<environ, chat_history>>
       ELSE LET r == ResolveKey(SetupEnvironment(environ, envfile, deps), envfile, api_key)
            IN /\ environ' = r.environ
               /\ IF KeyMissing(r.key)
                  THEN /\ last' = Call("Execute", "CANCELLED", "Missing API Key",
                                       None, 0, r.reads)
                       /\ UNCHANGED chat_history
                  ELSE IF remote = "raises" \/ reply = None
                  THEN /\ last' = Call("Execute", "FINISHED", "Error", r.key, 1, r.reads)
                       /\ UNCHANGED chat_history
                  ELSE LET done == Evaluate(RawCode[reply], ran)
                       IN /\ done = "ok" => Len(chat_history) + 2 <= MaxChat
                          /\ chat_history' = ExecThenLog(chat_history, prompt_input,
                                                 ExecutedPrefix \o prompt_input, done)
                          /\ last' = Call("Execute", "FINISHED",
                                          IF done = "ok"
                                          THEN "Gemini: Script executed successfully."
                                          ELSE "Error",
                                          r.key, 1, r.reads)
    /\ UNCHANGED <<envfile, deps, api_key, prompt_input, connection_status,
                   is_recording, ops, wavfile, fence>>

\* ------------------------------------------------------------------ VoiceRecord

\* The operator instance the next capture runs in.
NextOp == CHOOSE i \in 1..MaxOps :
            ops[i].state = "unused" /\ \A j \in 1..(i - 1) : ops[j].state # "unused"

\* Mutant: the except branch of execute forgets to clear the flag.
FlagLeftSet == TRUE

\* settings.is_recording after the except branch of VoiceRecord.execute.
FlagAfterFailedStart == FALSE

\* GEMINI_MCP_OT_VoiceRecord.execute, one press of the Voice button; device is what
\* sounddevice does: the stream cannot be opened, opens but does not start, or runs.
VoiceExecute(device) ==
    /\ environ' = SetupEnvironment(environ, envfile, deps)
    /\ IF is_recording
       THEN /\ is_recording' = FALSE
            /\ last' = Call("VoiceRecord.execute", "FINISHED", "none", None, 0, {})
            /\ UNCHANGED ops
       ELSE IF ~deps \/ device = "open_raises"
       THEN /\ is_recording' = FlagAfterFailedStart
            /\ last' = Call("VoiceRecord.execute", "CANCELLED", "Recording failed",
                            None, 0, {})
            /\ UNCHANGED ops
       ELSE /\ \E i \in 1..MaxOps : ops[i].state = "unused"
            /\ IF device = "start_raises"
               THEN /\ is_recording' = FlagAfterFailedStart
                    /\ ops' = [ops EXCEPT ![NextOp] = DeadOp("open")]
                    /\ last' = Call("VoiceRecord.execute", "CANCELLED",
                                    "Recording failed", None, 0, {})
               ELSE /\ is_recording' = TRUE
                    /\ ops' = [ops EXCEPT ![NextOp] = RunningOp]
                    /\ last' = Call("VoiceRecord.execute", "RUNNING_MODAL",
                                    "Recording started...", None, 0, {})
    /\ UNCHANGED <<envfile, deps, api_key, prompt_input, connection_status,
                   chat_history, wavfile, fence>>

\* The callback of the input stream of instance i, run for one block of audio:
\* the block is appended while the flag is set.
AudioCallback(i) ==
    /\ ops[i].stream = "active"
    /\ is_recording
    /\ ~ops[i].recorded
    /\ ops' = [ops EXCEPT ![i].recorded = TRUE]
    /\ last' = NoCall
    /\ UNCHANGED <<environ, envfile, deps, api_key, prompt_input, connection_status,
                   is_recording, chat_history, wavfile, fence>>

\* GEMINI_MCP_OT_VoiceRecord.stop_recording of instance i. stop is what
\* stream.stop() does, wav what wavfile.write does (it may raise before or after it
\* created the file), remote, reply and ran are as in Execute.
StopRecording(i, stop, wav, remote, reply, ran) ==
    IF stop = "raises"
    THEN /\ ops' = [ops EXCEPT ![i] = DeadOp("active")]
         /\ last' = Call("VoiceRecord.modal", "EXCEPTION", "none", None, 0, {})
         /\ UNCHANGED <<environ, chat_history, wavfile>>
    ELSE IF ~ops[i].recorded
    THEN /\ ops' = [ops EXCEPT ![i] = FreshOp]
         /\ last' = Call("VoiceRecord.modal", "FINISHED", "No audio recorded.",
                         None, 0, {})
         /\ UNCHANGED <<environ, chat_history, wavfile>>
    ELSE IF wav # "ok"
    THEN /\ ops' = [ops EXCEPT ![i] = FreshOp]
         /\ wavfile' = (wavfile \/ wav = "raises_written")
         /\ last' = Call("VoiceRecord.modal", "EXCEPTION", "none", None, 0, {})
         /\ UNCHANGED <<environ, chat_history>>
    ELSE LET r == ResolveKey(environ, envfile, api_key)
         IN /\ ops' = [ops EXCEPT ![i] = FreshOp]
            /\ environ' = r.environ
            /\ wavfile' = FALSE
            /\ IF KeyMissing(r.key)
               THEN /\ last' = Call("VoiceRecord.modal", "FINISHED", "Missing API Key",
                                    None, 0, r.reads)
                    /\ UNCHANGED chat_history
               ELSE IF remote = "raises" \/ reply = None
               THEN /\ last' = Call("VoiceRecord.modal", "FINISHED", "Processing failed",
                                    r.key, 1, r.reads)
                    /\ UNCHANGED chat_history
               ELSE IF RawCode[reply] = <<>>
               THEN /\ last' = Call("VoiceRecord.modal", "FINISHED",
                                    "Gemini did not return any code.", r.key, 1, r.reads)
                    /\ UNCHANGED chat_history
               ELSE /\ ran = "ok" => Len(chat_history) + 2 <= MaxChat
                    /\ chat_history' = ExecThenLog(chat_history, VoiceUserLine,
                                                   VoiceAiLine, ran)
                    /\ last' = Call("VoiceRecord.modal", "FINISHED",
                                    IF ran = "ok" THEN "Gemini: Voice command executed."
                                    ELSE "Processing failed",
                                    r.key, 1, r.reads)

\* GEMINI_MCP_OT_VoiceRecord.modal of the running instance i, for one host event.
Modal(i, event, stop, wav, remote, reply, ran) ==
    /\ ops[i].state = "modal"
    /\ IF event = "TIMER" /\ ~is_recording
       THEN StopRecording(i, stop, wav, remote, reply, ran)
       ELSE /\ last' = Call("VoiceRecord.modal", "PASS_THROUGH", "none", None, 0, {})
            /\ UNCHANGED <<environ, chat_history, ops, wavfile>>
    /\ UNCHANGED <<envfile, deps, api_key, prompt_input, connection_status,
                   is_recording, fence>>

\* ------------------------------------------------------------------ the add-on

FenceIdle == [text |-> <<>>, once |-> <<>>, twice |-> <<>>, pc |-> "idle"]

\* The settings at their defaults, no operator instance, nothing called yet.
Defaults ==
    /\ api_key = <<>>
    /\ prompt_input = DefaultPrompt
    /\ connection_status = "NONE"
    /\ is_recording = FALSE
    /\ chat_history = <<>>
    /\ ops = [i \in 1..MaxOps |-> FreshOp]
    /\ wavfile = FALSE
    /\ last = NoCall

Outcomes == {"ok", "raises"}
Devices == {"ok", "open_raises", "start_raises"}
WavWrites == {"ok", "raises_unwritten", "raises_written"}
Events == {"TIMER", "MOUSEMOVE"}

\* --- Spec: the voice operator with every failure of the packages, the device,
\* the stream, the WAV write, the remote call and the evaluation. The key comes
\* from the UI setting alone (no .env file, no environment variable).

\* The state after register().
Init ==
    /\ deps \in BOOLEAN
    /\ envfile = NoFile
    /\ environ = None
    /\ Defaults
    /\ fence = FenceIdle

Next ==
    \/ EditApiKey
    \/ \E pip \in {"ok", "fails"} : InstallDeps(pip)
    \/ \E device \in Devices : VoiceExecute(device)
    \/ \E i \in 1..MaxOps : AudioCallback(i)
    \/ \E i \in 1..MaxOps, event \in Events, stop \in Outcomes, wav \in WavWrites,
          remote \in Outcomes, reply \in Replies, ran \in Outcomes :
          Modal(i, event, stop, wav, remote, reply, ran)

Spec == Init /\ [][Next]_vars

\* --- SpecKeys: every source of the key (environment, .env file, UI setting) and
\* every operator that resolves it. The device starts and the stream stops, the
\* WAV write may fail before it creates the file, and the generated code always
\* raises, so that the transcript stays empty.

InitKeys ==
    /\ deps \in BOOLEAN
    /\ envfile \in EnvFiles
    /\ \E e \in StartEnviron : environ = SetupEnvironment(e, envfile, deps)
    /\ Defaults
    /\ fence = FenceIdle

NextKeys ==
    \/ EditApiKey
    \/ EditPrompt
    \/ WriteEnvFile
    \/ InstallDeps("ok")
    \/ \E remote \in Outcomes : TestConnection(remote)
    \/ \E remote \in Outcomes : Execute(remote, FencedReply, "raises")
    \/ VoiceExecute("ok")
    \/ \E i \in 1..MaxOps : AudioCallback(i)
    \/ \E i \in 1..MaxOps, wav \in {"ok", "raises_unwritten"}, remote \in Outcomes :
          Modal(i, "TIMER", "ok", wav, remote, FencedReply, "raises")

SpecKeys == InitKeys /\ [][NextKeys]_vars

\* --- SpecChat: the transcript. Both operators that append to it, with every
\* outcome of the remote call and of the evaluation; the device, the stream and
\* the WAV write work.

InitChat ==
    /\ deps = TRUE
    /\ envfile = NoFile
    /\ environ = None
    /\ Defaults
    /\ fence = FenceIdle

NextChat ==
    \/ EditApiKey
    \/ EditPrompt
    \/ \E remote \in Outcomes, reply \in Replies, ran \in Outcomes :
          Execute(remote, reply, ran)
    \/ VoiceExecute("ok")
    \/ \E i \in 1..MaxOps : AudioCallback(i)
    \/ \E i \in 1..MaxOps, remote \in Outcomes, reply \in Replies, ran \in Outcomes :
          Modal(i, "TIMER", "ok", "ok", remote, reply, ran)

SpecChat == InitChat /\ [][NextChat]_vars

\* --- SpecFence: fence stripping alone, over every reply of at most MaxFrags pieces.

\* The pieces replies are put together from.
Fragments ==
    { <<BQ>>, Fence, PythonFence \o <<"\n">>, <<"p", "y", "t", "h", "o", "n">>,
      <<" ">>, <<"\n">>, <<"x">> }

RECURSIVE Texts(_)
\* Every text of at most n fragments.
Texts(n) ==
    IF n = 0 THEN {<<>>}
    ELSE LET shorter == Texts(n - 1)
         IN shorter \cup {t \o f : t \in shorter, f \in Fragments}

InitFence ==
    /\ fence \in {[text |-> t, once |-> <<>>, twice |-> <<>>, pc |-> "reply"] :
                    t \in Texts(MaxFrags)}
    /\ deps = TRUE
    /\ envfile = NoFile
    /\ environ = None
    /\ Defaults

\* raw_code = StripFences(response.text)
StripReply ==
    /\ fence.pc = "reply"
    /\ fence' = [fence EXCEPT !.once = StripFences(fence.text), !.pc = "once"]
    /\ UNCHANGED <<environ, envfile, deps, api_key, prompt_input, connection_status,
                   is_recording, chat_history, ops, wavfile, last>>

\* The stripped text is stripped again.
StripAgain ==
    /\ fence.pc = "once"
    /\ fence' = [fence EXCEPT !.twice = StripFences(fence.once), !.pc = "twice"]
    /\ UNCHANGED <<environ, envfile, deps, api_key, prompt_input, connection_status,
                   is_recording, chat_history, ops, wavfile, last>>

NextFence == StripReply \/ StripAgain

SpecFence == InitFence /\ [][NextFence]_vars

\* ------------------------------------------------------------------ claims

\* The operator callbacks that resolve the key.
KeyOps == {"TestConnection", "Execute", "VoiceRecord.modal"}

\* The value the .env file gives for GEMINI_API_KEY: what load_dotenv reads, or
\* else what the manual parse reads.
FileValue(file) == IF Truthy(DotenvKey[file]) THEN DotenvKey[file] ELSE ManualKey[file]

\* Environment first, then the file, then the UI setting.
ExpectedKey(env, file, ui) ==
    IF Truthy(env) THEN env
    ELSE IF Truthy(FileValue(file)) THEN FileValue(file)
    ELSE ui

\* The key handed to genai.Client in this step is the one the priority order gives
\* for the sources as they were when the operator was called.
KeyByPriority ==
    (last'.op \in KeyOps /\ last'.client # None)
        => last'.client = ExpectedKey(environ, envfile, api_key)

\* C1 as stated: the key passed to the client is the environment value if
\* present, else the file value if present, else the UI value, and the file and
\* the UI setting are consulted only when every source above them gave nothing.
C1_Original ==
    [][ /\ KeyByPriority
        /\ (last'.op \in KeyOps /\ last'.reads \cap {"dotenv", "manual"} # {})
              => ~Truthy(environ)
        /\ (last'.op \in KeyOps /\ "ui" \in last'.reads)
              => ~Truthy(environ) /\ ~Truthy(FileValue(envfile)) ]_vars

\* C1 as amended: the key passed to the client is the environment value if
\* present, else the file value if present, else the UI value; the manual parse
\* of the file and the UI setting are consulted only when every source above them
\* gave nothing (load_dotenv itself reads the file on every call).
C1_KeyPriority ==
    [][ /\ KeyByPriority
        /\ (last'.op \in KeyOps /\ "manual" \in last'.reads) => ~Truthy(environ)
        /\ (last'.op \in KeyOps /\ "ui" \in last'.reads)
              => ~Truthy(environ) /\ ~Truthy(FileValue(envfile)) ]_vars

\* stop_recording was handed the key of the file although the UI field holds one
\* too, after the manual parse was needed (the environment variable is set but empty).
C1_Witness ==
    /\ last.op = "VoiceRecord.modal"
    /\ last.client = <<"c">>
    /\ api_key = <<"b">>
    /\ "manual" \in last.reads

\* No source holds a key.
NoKeyAnywhere == ~Truthy(environ) /\ ~Truthy(FileValue(envfile)) /\ ~Truthy(api_key)

\* This step is a call of an operator that resolves the key (for modal: one that
\* went into stop_recording).
KeyOpCalled == last'.op \in KeyOps /\ last'.result # "PASS_THROUGH"

\* C2 as stated: with no key in any source, every operator that resolves the key
\* reports "Missing API Key" and makes no network call.
C2_Original ==
    [][ (NoKeyAnywhere /\ KeyOpCalled)
            => /\ last'.report = "Missing API Key"
               /\ last'.client = None
               /\ last'.net = 0 ]_vars

\* The operator called in this step gets as far as resolving the key: the
\* packages import and, in stop_recording, the stream stops, audio was recorded
\* and the WAV file is written.
ReachesKey ==
    /\ deps
    /\ last'.result # "EXCEPTION"
    /\ last'.op = "VoiceRecord.modal"
          => \E i \in 1..MaxOps : ops[i].state = "modal" /\ ops[i].recorded /\ ops'[i] # ops[i]

\* C2 as amended: with no key in any source, no operator that resolves the key
\* builds a client or makes a network call, whatever the prompt; it reports
\* "Missing API Key" whenever it gets as far as resolving the key.
C2_NoKeyNoCall ==
    [][ (NoKeyAnywhere /\ KeyOpCalled)
            => /\ last'.client = None
               /\ last'.net = 0
               /\ ReachesKey => last'.report = "Missing API Key" ]_vars

\* Execute was called with an empty prompt and no key anywhere, and reported it.
C2_Witness ==
    /\ last.op = "Execute"
    /\ last.report = "Missing API Key"
    /\ prompt_input = <<>>
    /\ NoKeyAnywhere

\* C3: is_recording is false while no capture has started (no instance is
\* modal), false when VoiceRecord.execute has returned CANCELLED, and false when
\* stop_recording has returned, whatever stage failed or succeeded.
C3_FlagFalse ==
    /\ (\A i \in 1..MaxOps : ops[i].state # "modal") => ~is_recording
    /\ (last.op = "VoiceRecord.execute" /\ last.result = "CANCELLED") => ~is_recording
    /\ (last.op = "VoiceRecord.modal" /\ last.result = "FINISHED") => ~is_recording

\* stop_recording returned after the remote call and the evaluation succeeded.
C3_Witness ==
    /\ last.op = "VoiceRecord.modal"
    /\ last.report = "Gemini: Voice command executed."
    /\ ~is_recording

\* C4 as stated: when stop_recording has finished, by any path,
\* gemini_voice_command.wav does not exist.
C4_NoTempFile ==
    (last.op = "VoiceRecord.modal" /\ last.result \in {"FINISHED", "EXCEPTION"})
        => ~wavfile

\* C5 as stated: at most one modal instance has a started stream, and at most
\* one has a live timer.
C5_OneRecording ==
    /\ Cardinality({i \in 1..MaxOps :
                      ops[i].state = "modal" /\ ops[i].stream = "active"}) <= 1
    /\ Cardinality({i \in 1..MaxOps : ops[i].state = "modal" /\ ops[i].timer}) <= 1

\* C6 as stated: after a TestConnection call, connection_status is SUCCESS if
\* that call's ping succeeded and FAILED if that call failed for any reason.
C6_StatusOfLastProbe ==
    last.op = "TestConnection"
        => connection_status =
             IF last.report = "Gemini: Connection Successful!" THEN "SUCCESS" ELSE "FAILED"

\* C7 as stated: every operator callback returns an outcome to the host; no
\* exception propagates out of it.
C7_NoException ==
    last.op # "none" => last.result \in {"FINISHED", "CANCELLED", "RUNNING_MODAL", "PASS_THROUGH"}

\* C8 as stated: the flag is set only while some instance is modal, and a timer
\* that is registered or a stream that is open belongs to an instance that is
\* still modal, so that a stop handler is yet to run for it.
C8_TornDown ==
    /\ is_recording => \E i \in 1..MaxOps : ops[i].state = "modal"
    /\ \A i \in 1..MaxOps :
          (ops[i].timer \/ ops[i].stream \in {"open", "active"}) => ops[i].state = "modal"

\* The reply holds at most one fenced block: at most two markers.
AtMostOneBlock(text) == Count(text, Fence) <= 2

\* C9: for a reply with at most one fenced block, stripping the stripped text
\* again gives the same text.
C9_Idempotent ==
    (fence.pc = "twice" /\ AtMostOneBlock(fence.text)) => fence.twice = fence.once

\* The reply with one fenced block around x was stripped twice, to x.
C9_Witness ==
    /\ fence.pc = "twice"
    /\ fence.text = FencedReply
    /\ fence.once = <<"x">>

\* The transcript is made of (user, ai) pairs.
InPairs(chat) ==
    /\ Len(chat) % 2 = 0
    /\ \A k \in 1..Len(chat) : chat[k].role = IF k % 2 = 1 THEN "user" ELSE "ai"

\* This step leaves the transcript alone, or appends one (user, ai) pair to it
\* after the generated code ran without raising.
AppendsPairAfterRun ==
    \/ chat_history' = chat_history
    \/ /\ Len(chat_history') = Len(chat_history) + 2
       /\ SubSeq(chat_history', 1, Len(chat_history)) = chat_history
       /\ chat_history'[Len(chat_history) + 1].role = "user"
       /\ chat_history'[Len(chat_history) + 2].role = "ai"
       /\ last'.report \in {"Gemini: Script executed successfully.",
                            "Gemini: Voice command executed."}

\* C10: every step leaves the transcript unchanged or appends exactly one
\* (user, ai) pair, and only after the generated code was evaluated without
\* raising; so the transcript is always made of (user, ai) pairs.
C10_Transcript == [](InPairs(chat_history)) /\ [][AppendsPairAfterRun]_vars

\* A voice exchange followed by a text exchange with an empty prompt.
C10_Witness ==
    /\ Len(chat_history) = 4
    /\ chat_history[1].content = VoiceUserLine
    /\ chat_history[3].content = <<>>

====
